---- MODULE Spec2Model ----
(***************************************************************************)
(* Model of gee_gateway/web/routes.py: five POST handlers that read named  *)
(* fields from a JSON body, call one operation of the Earth Engine client  *)
(* (gee.utils), catch GEEException and answer with jsonify(values), 200.   *)
(*                                                                         *)
(* A request is handled in one step by the handler its route selects.  The *)
(* request body (the result of request.get_json()) and the behaviour of    *)
(* the engine for that request are inputs, drawn in Init.                  *)
(***************************************************************************)
EXTENDS Integers, Sequences, FiniteSets, TLC

VARIABLES request, engine, pc, values, status, calls, log, raised

vars == <<request, engine, pc, values, status, calls, log, raised>>

----------------------------------------------------------------------------
(* Bounds of the model *)

NumGeom == 2      \* distinct non-empty geometries a payload may carry
NumMsg  == 2      \* distinct GEEException messages
NumRet  == 2      \* distinct successful engine return values

----------------------------------------------------------------------------
(* JSON / Python values.  Every value has the same shape so that any two    *)
(* values can be compared: t is the Python type, s the text of a string,   *)
(* n the number, or the identity of a list or dict (0 = the empty one).    *)

None     == [t |-> "NoneType", s |-> "", n |-> 0]
Str(x)   == [t |-> "str",   s |-> x,  n |-> 0]
PyInt(k) == [t |-> "int",   s |-> "", n |-> k]
Float(k) == [t |-> "float", s |-> "", n |-> k]
List(k)  == [t |-> "list",  s |-> "", n |-> k]
Dict(k)  == [t |-> "dict",  s |-> "", n |-> k]

\* marks a key that the payload does not carry (used to enumerate payloads)
Absent   == [t |-> "absent", s |-> "", n |-> 0]

\* Python truth value of a field value
Truthy(v) ==
    CASE v.t = "NoneType" -> FALSE
      [] v.t = "str"      -> v.s # ""
      [] v.t = "int"      -> v.n # 0
      [] v.t = "float"    -> v.n # 0
      [] v.t = "list"     -> v.n # 0
      [] v.t = "dict"     -> v.n # 0
      [] OTHER            -> FALSE

\* strings that Python's float() parses, with their value
NumericStrings == ("10" :> 10) @@ ("30" :> 30)

\* the exception float(v) raises, or "none"
floatRaises(v) ==
    CASE v.t \in {"int", "float"}                  -> "none"
      [] v.t = "str" /\ v.s \in DOMAIN NumericStrings -> "none"
      [] v.t = "str"                                -> "ValueError"
      [] OTHER                                      -> "TypeError"

\* the value of float(v) when it does not raise
float(v) ==
    IF v.t = "str" THEN Float(NumericStrings[v.s]) ELSE Float(v.n)

----------------------------------------------------------------------------
(* The body returned by request.get_json(): a dict of fields, or any other *)
(* JSON value (None when the request carries no JSON).                     *)

EmptyDict == [k \in {} |-> None]

DictBody(d)  == [isDict |-> TRUE,  d |-> d,         v |-> None]
OtherBody(v) == [isDict |-> FALSE, d |-> EmptyDict, v |-> v]

\* "if json:"
BodyTruthy(json) == IF json.isDict THEN DOMAIN json.d # {} ELSE Truthy(json.v)

\* json.get(key, default) on a dict
Get(d, key, default) == IF key \in DOMAIN d THEN d[key] ELSE default

\* the dict holding the keys of r that are not Absent
ToDict(r) == [k \in {k \in DOMAIN r : r[k] # Absent} |-> r[k]]

----------------------------------------------------------------------------
(* The engine (gee.utils), seen from the handlers: for the request at hand  *)
(* a call either returns, raises GEEException with a message, or raises    *)
(* some other exception.                                                   *)

Messages == <<"bad polygon", "quota exceeded", "asset not found", "timed out">>
MapIds   == <<"m1", "m2", "m3", "m4">>
Tokens   == <<"t1", "t2", "t3", "t4">>

EngineOutcomes ==
       [kind : {"returns"}, ret : 1..NumRet, message : {""}]
  \cup [kind : {"GEEException"}, ret : {0}, message : {Messages[i] : i \in 1..NumMsg}]
  \cup [kind : {"Exception"}, ret : {0}, message : {"internal"}]

\* what each engine operation returns as its ret-th result
MapIdResult(ret)      == [mapid |-> Str(MapIds[ret]), token |-> Str(Tokens[ret])]
TimeSeriesResult(ret) == List(ret)
StatisticsResult(ret) == [maxElev |-> PyInt(1230 + ret), minElev |-> PyInt(1230), pop |-> PyInt(ret - 1)]

Call(op, args) == [op |-> op, args |-> args]

----------------------------------------------------------------------------
(* Outcome of a handler: the values it answers with and the status, the    *)
(* engine calls it made, what it logged, and the exception that left it    *)
(* uncaught ("none" when it returned).                                     *)

Returned(vals, cs, lg) ==
    [values |-> vals, status |-> 200, calls |-> cs, log |-> lg, raised |-> "none"]

\* an exception leaves the handler: no jsonify(values), 200 is reached
Propagates(exc, cs) ==
    [values |-> EmptyDict, status |-> 0, calls |-> cs, log |-> <<>>, raised |-> exc]

\* "except GEEException as e": the only exception kind the handlers catch
CaughtAll(kind) == kind # "returns"
Caught(kind) == kind = "GEEException"

\* the except block: logger.error(e.message); values = {'errMsg': e.message}
ExceptNoLog(message) == [values |-> [errMsg |-> Str(message)], log |-> <<>>]
ExceptKeepsKey(message) ==
    [values |-> [errMsg |-> Str(message), timeseries |-> List(0)], log |-> <<message>>]
Except(message) == [values |-> [errMsg |-> Str(message)], log |-> <<message>>]

\* a call to the engine that is made a second time
InvokeTwice(call, result, eng) ==
    IF eng.kind = "returns" THEN Returned(result, <<call, call>>, <<>>)
    ELSE IF eng.kind = "GEEException"
         THEN Returned([errMsg |-> Str(eng.message)], <<call, call>>, <<eng.message>>)
         ELSE Propagates(eng.kind, <<call>>)

\* a call to the engine inside the try block; result is what values becomes
\* when the call returns
Invoke(call, result, eng) ==
    IF eng.kind = "returns" THEN Returned(result, <<call>>, <<>>)
    ELSE IF Caught(eng.kind)
         THEN Returned(Except(eng.message).values, <<call>>, Except(eng.message).log)
         ELSE Propagates(eng.kind, <<call>>)

\* values = {} is returned untouched
ReturnEmpty == Returned(EmptyDict, <<>>, <<>>)

----------------------------------------------------------------------------
(* The handlers, as functions of the body and of the engine's behaviour.   *)

\* image(): routes.py 50-63
imageHandler(json, eng) ==
    IF ~BodyTruthy(json) THEN ReturnEmpty
    ELSE IF ~json.isDict THEN Propagates("AttributeError", <<>>)
    ELSE LET imageName == Get(json.d, "imageName", None)
         IN  IF ~Truthy(imageName) THEN ReturnEmpty
             ELSE LET visParams == Get(json.d, "visParams", None)
                  IN  Invoke(Call("imageToMapId", <<imageName, visParams>>),
                             MapIdResult(eng.ret), eng)

\* imageByMosaicCollection(): routes.py 102-117
imageByMosaicCollectionHandler(json, eng) ==
    IF ~BodyTruthy(json) THEN ReturnEmpty
    ELSE IF ~json.isDict THEN Propagates("AttributeError", <<>>)
    ELSE LET collectionName == Get(json.d, "collectionName", None)
         IN  IF ~Truthy(collectionName) THEN ReturnEmpty
             ELSE LET visParams == Get(json.d, "visParams", None)
                      dateFrom  == Get(json.d, "dateFrom", None)
                      dateTo    == Get(json.d, "dateTo", None)
                  IN  Invoke(Call("firstImageInMosaicToMapId",
                                  <<collectionName, visParams, dateFrom, dateTo>>),
                             MapIdResult(eng.ret), eng)

\* the defaults of json.get('indexName', 'NDVI') and json.get('scale', 30)
OtherIndexName == "NDWI"
DefaultIndexName == "NDVI"
DefaultScale == 30

\* geometry = json.get('polygon', None); if not geometry: geometry = json.get('geometry', None)
GeometryOnlyFromPolygon(d) == Get(d, "polygon", None)
GeometryFirst(d) ==
    LET geometry == Get(d, "geometry", None)
    IN  IF ~Truthy(geometry) THEN Get(d, "polygon", None) ELSE geometry
SelectGeometry(d) ==
    LET geometry == Get(d, "polygon", None)
    IN  IF ~Truthy(geometry) THEN Get(d, "geometry", None) ELSE geometry

\* values = {'timeseries': timeseries}
TimeseriesValues(timeseries) == [timeseries |-> timeseries]

\* timeSeriesIndex(): routes.py 160-182
timeSeriesIndexHandler(json, eng) ==
    IF ~BodyTruthy(json) THEN ReturnEmpty
    ELSE IF ~json.isDict THEN Propagates("AttributeError", <<>>)
    ELSE LET collectionName == Get(json.d, "collectionNameTimeSeries", None)
             geometry       == SelectGeometry(json.d)
         IN  IF ~(Truthy(collectionName) /\ Truthy(geometry)) THEN ReturnEmpty
             ELSE LET indexName == Get(json.d, "indexName", Str(DefaultIndexName))
                      scaleArg  == Get(json.d, "scale", PyInt(DefaultScale))
                  IN  IF floatRaises(scaleArg) # "none"
                      THEN Propagates(floatRaises(scaleArg), <<>>)
                      ELSE LET scale    == float(scaleArg)
                               dateFrom == Get(json.d, "dateFromTimeSeries", None)
                               dateTo   == Get(json.d, "dateToTimeSeries", None)
                           IN  Invoke(Call("getTimeSeriesByCollectionAndIndex",
                                           <<collectionName, indexName, scale,
                                             geometry, dateFrom, dateTo>>),
                                      TimeseriesValues(TimeSeriesResult(eng.ret)), eng)

\* timeSeriesIndex2(): routes.py 187-206
timeSeriesIndex2Handler(json, eng) ==
    IF ~BodyTruthy(json) THEN ReturnEmpty
    ELSE IF ~json.isDict THEN Propagates("AttributeError", <<>>)
    ELSE LET geometry == SelectGeometry(json.d)
         IN  IF ~Truthy(geometry) THEN ReturnEmpty
             ELSE LET indexName == Get(json.d, "indexName", Str(DefaultIndexName))
                      scaleArg  == Get(json.d, "scale", PyInt(DefaultScale))
                  IN  IF floatRaises(scaleArg) # "none"
                      THEN Propagates(floatRaises(scaleArg), <<>>)
                      ELSE Invoke(Call("getTimeSeriesByIndex",
                                       <<indexName, float(scaleArg), geometry>>),
                                  TimeseriesValues(TimeSeriesResult(eng.ret)), eng)

\* getStats(): routes.py 236-247.  There is no "if json:" here: json.get is
\* called on whatever get_json() returned.
getStatsHandler(json, eng) ==
    IF ~json.isDict THEN Propagates("AttributeError", <<>>)
    ELSE LET paramType  == Get(json.d, "paramType", None)
             paramValue == Get(json.d, "paramValue", None)
         IN  Invoke(Call("getStatistics", <<paramType, paramValue>>),
                    StatisticsResult(eng.ret), eng)

----------------------------------------------------------------------------
(* The requests: for each route, payloads over the keys its handler reads  *)
(* and the keys its docstring names, and bodies that are not dicts.        *)

Geometries    == {List(g) : g \in 1..NumGeom}
GeometryField == {Absent, List(0)} \cup Geometries
NameField(x)  == {Absent, None, Str(""), Str(x)}
DateField(x)  == {Absent, Str(x)}
ScaleField    == {Absent, None, PyInt(10), Str("10"), Str("abc")}

NonDictBodies == {OtherBody(v) : v \in {None, List(0), List(1), Str("x")}}

DictBodies(payloads) == {DictBody(ToDict(r)) : r \in payloads}

ImagePayloads ==
    [imageName : NameField("X"), visParams : {Absent, Dict(1)}]

MosaicPayloads ==
    [collectionName : NameField("LANDSAT"), visParams : {Absent, Dict(1)},
     dateFrom : DateField("2017-01-01"), dateTo : DateField("2017-12-31")]

TimeSeriesPayloads ==
    [collectionNameTimeSeries : {Absent, Str(""), Str("LANDSAT")},
     collectionName : {Absent, Str("LANDSAT")},
     polygon : GeometryField, geometry : GeometryField,
     indexName : {Absent, Str("EVI")}, scale : ScaleField,
     dateFromTimeSeries : DateField("2017-01-01"),
     dateToTimeSeries : DateField("2017-12-31"),
     dateFrom : DateField("2017-01-01"), dateTo : DateField("2017-12-31")]

TimeSeries2Payloads ==
    [polygon : GeometryField, geometry : GeometryField,
     indexName : {Absent, None, Str("EVI")}, scale : ScaleField]

StatsPayloads ==
    [paramType : {Absent, Str(""), Str("basin")}, paramValue : GeometryField]

Bodies(endpoint) ==
    NonDictBodies \cup DictBodies(
        CASE endpoint = "/image"                   -> ImagePayloads
          [] endpoint = "/imageByMosaicCollection" -> MosaicPayloads
          [] endpoint = "/timeSeriesIndex"         -> TimeSeriesPayloads
          [] endpoint = "/timeSeriesIndex2"        -> TimeSeries2Payloads
          [] endpoint = "/getStats"                -> StatsPayloads)

Endpoints == {"/image", "/imageByMosaicCollection", "/timeSeriesIndex",
              "/timeSeriesIndex2", "/getStats"}

Requests == UNION {[endpoint : {e}, json : Bodies(e)] : e \in Endpoints}

----------------------------------------------------------------------------
(* The state machine: a request has been received; the handler of its      *)
(* route runs once and the request is done.                                *)

Init ==
    /\ request \in Requests
    /\ engine \in EngineOutcomes
    /\ pc = "received"
    /\ values = EmptyDict
    /\ status = 0
    /\ calls = <<>>
    /\ log = <<>>
    /\ raised = "none"

\* the state after the handler ended with outcome out
Finish(out) ==
    /\ values' = out.values
    /\ status' = out.status
    /\ calls' = out.calls
    /\ log' = out.log
    /\ raised' = out.raised
    /\ pc' = "done"
    /\ UNCHANGED <<request, engine>>

image ==
    /\ pc = "received"
    /\ request.endpoint = "/image"
    /\ Finish(imageHandler(request.json, engine))

imageByMosaicCollection ==
    /\ pc = "received"
    /\ request.endpoint = "/imageByMosaicCollection"
    /\ Finish(imageByMosaicCollectionHandler(request.json, engine))

timeSeriesIndex ==
    /\ pc = "received"
    /\ request.endpoint = "/timeSeriesIndex"
    /\ Finish(timeSeriesIndexHandler(request.json, engine))

timeSeriesIndex2 ==
    /\ pc = "received"
    /\ request.endpoint = "/timeSeriesIndex2"
    /\ Finish(timeSeriesIndex2Handler(request.json, engine))

getStats ==
    /\ pc = "received"
    /\ request.endpoint = "/getStats"
    /\ Finish(getStatsHandler(request.json, engine))

Next ==
    \/ image
    \/ imageByMosaicCollection
    \/ timeSeriesIndex
    \/ timeSeriesIndex2
    \/ getStats

Spec == Init /\ [][Next]_vars

----------------------------------------------------------------------------
(* Vocabulary of the properties *)

Done     == pc = "done"
Endpoint == request.endpoint
IsDict   == request.json.isDict
Payload  == request.json.d

\* get_json() returned None: the request carries no JSON body
NoBody == ~IsDict /\ request.json.v = None

Has(key) == IsDict /\ key \in DOMAIN Payload

TimeSeriesEndpoints == {"/timeSeriesIndex", "/timeSeriesIndex2"}

\* the payload lacks the field that identifies what the endpoint works on
MissingPrimary ==
    \/ NoBody
    \/ /\ IsDict
       /\ CASE Endpoint = "/image" -> ~Has("imageName")
            [] Endpoint = "/imageByMosaicCollection" -> ~Has("collectionName")
            [] Endpoint = "/timeSeriesIndex" ->
                   \/ ~Has("collectionNameTimeSeries")
                   \/ ~Has("polygon") /\ ~Has("geometry")
            [] Endpoint = "/timeSeriesIndex2" -> ~Has("polygon") /\ ~Has("geometry")
            [] Endpoint = "/getStats" -> ~Has("paramType") \/ ~Has("paramValue")

\* a field of the payload is present and true in Python's sense
Present(key) == Has(key) /\ Truthy(Payload[key])

\* the request passes the presence checks of its handler (getStats has none
\* beyond reading fields of a dict)
PassesPresenceChecks ==
    /\ IsDict
    /\ CASE Endpoint = "/image" -> Present("imageName")
         [] Endpoint = "/imageByMosaicCollection" -> Present("collectionName")
         [] Endpoint = "/timeSeriesIndex" ->
                /\ Present("collectionNameTimeSeries")
                /\ Present("polygon") \/ Present("geometry")
         [] Endpoint = "/timeSeriesIndex2" -> Present("polygon") \/ Present("geometry")
         [] Endpoint = "/getStats" -> TRUE

\* the scale of the payload is one float() rejects
ScaleRejected == Has("scale") /\ floatRaises(Payload["scale"]) # "none"

\* the engine operation that belongs to each endpoint
OperationOf(endpoint) ==
    CASE endpoint = "/image"                   -> "imageToMapId"
      [] endpoint = "/imageByMosaicCollection" -> "firstImageInMosaicToMapId"
      [] endpoint = "/timeSeriesIndex"         -> "getTimeSeriesByCollectionAndIndex"
      [] endpoint = "/timeSeriesIndex2"        -> "getTimeSeriesByIndex"
      [] endpoint = "/getStats"                -> "getStatistics"

\* positions of indexName, scale and geometry among the arguments of the
\* two time-series operations
IndexArg == IF Endpoint = "/timeSeriesIndex" THEN calls[1].args[2] ELSE calls[1].args[1]
ScaleArg == IF Endpoint = "/timeSeriesIndex" THEN calls[1].args[3] ELSE calls[1].args[2]
GeometryArg == IF Endpoint = "/timeSeriesIndex" THEN calls[1].args[4] ELSE calls[1].args[3]

EngineRaisedDomainException == calls # <<>> /\ engine.kind = "GEEException"

----------------------------------------------------------------------------
\* C1: on every endpoint a request whose payload lacks the endpoint's primary
\* identifying field (an empty or absent JSON body included) is answered with
\* the body {} and status 200.
C1_MissingFieldYieldsEmpty200 ==
    (Done /\ MissingPrimary) => (values = EmptyDict /\ status = 200)

\* C2: whenever the invoked engine operation raises GEEException with message
\* M, the response body is exactly {"errMsg": M}, the status is 200 and M is
\* logged.
C2_DomainExceptionBecomesErrMsg ==
    (Done /\ EngineRaisedDomainException) =>
        /\ values = [errMsg |-> Str(engine.message)]
        /\ status = 200
        /\ raised = "none"
        /\ log = <<engine.message>>

C2_Witness ==
    /\ Done /\ Endpoint = "/getStats" /\ EngineRaisedDomainException
    /\ engine.message = "bad polygon"
    /\ values = [errMsg |-> Str("bad polygon")]

\* C3: on every endpoint, a request that is missing its required identifying
\* field makes no engine call.
C3_MissingFieldMakesNoEngineCall ==
    (Done /\ MissingPrimary) => Len(calls) = 0

\* the payload with its "geometry" field sent under the legacy name "polygon"
AsPolygon(d) ==
    [k \in (DOMAIN d \ {"geometry"}) \cup {"polygon"} |->
        IF k = "polygon" THEN d["geometry"] ELSE d[k]]

\* what the handler did with the request at hand
Outcome ==
    [values |-> values, status |-> status, calls |-> calls, log |-> log, raised |-> raised]

\* C4: /timeSeriesIndex treats "geometry" and the legacy "polygon" alike: a
\* payload carrying G under "geometry" only and the same payload carrying G
\* under "polygon" only lead to the same engine call (with G as the geometry)
\* and the same response; with both absent the response is {}.
C4_GeometryAndPolygonInterchangeable ==
    (Done /\ Endpoint = "/timeSeriesIndex" /\ IsDict) =>
        /\ (Has("geometry") /\ ~Has("polygon")) =>
              /\ timeSeriesIndexHandler(DictBody(AsPolygon(Payload)), engine) = Outcome
              /\ calls # <<>> => calls[1].args[4] = Payload["geometry"]
              /\ (Present("collectionNameTimeSeries") /\ Present("geometry")
                    /\ ~ScaleRejected) => Len(calls) = 1
        /\ (~Has("geometry") /\ ~Has("polygon")) =>
              (values = EmptyDict /\ status = 200 /\ calls = <<>>)

C4_Witness ==
    /\ Done /\ Endpoint = "/timeSeriesIndex"
    /\ Has("geometry") /\ ~Has("polygon")
    /\ Len(calls) = 1
    /\ calls[1].args[4] = Payload["geometry"]
    /\ values = [timeseries |-> TimeSeriesResult(engine.ret)]

\* the value float() gives the scale of the payload (30 when it has none)
ForwardedScale == float(Get(Payload, "scale", PyInt(30)))

\* C5 as stated: on the two time-series endpoints every request that passes
\* the presence checks reaches the engine, with indexName "NDVI" when the
\* payload has none and the supplied one otherwise, and with scale 30 when the
\* payload has none and the supplied one otherwise.
C5_DefaultsForwardedAsStated ==
    (Done /\ Endpoint \in TimeSeriesEndpoints /\ PassesPresenceChecks) =>
        /\ Len(calls) = 1
        /\ IndexArg = Get(Payload, "indexName", Str("NDVI"))
        /\ ~Has("scale") => ScaleArg.n = 30
        /\ Has("scale") => ScaleArg.n = ForwardedScale.n

\* C5 amended: on the two time-series endpoints every request that passes the
\* presence checks and whose scale float() accepts reaches the engine with
\* indexName "NDVI" when the payload has none and the supplied indexName
\* otherwise, and with scale 30.0 when the payload has none and float(scale)
\* otherwise; a scale that float() rejects raises out of the handler before
\* any engine call.
C5_DefaultsForwarded ==
    (Done /\ Endpoint \in TimeSeriesEndpoints /\ PassesPresenceChecks) =>
        IF ScaleRejected
        THEN calls = <<>> /\ raised \in {"ValueError", "TypeError"} /\ status # 200
        ELSE /\ Len(calls) = 1
             /\ IndexArg = Get(Payload, "indexName", Str("NDVI"))
             /\ ~Has("scale") => ScaleArg = Float(30)
             /\ Has("scale") => ScaleArg = ForwardedScale

C5_Witness ==
    /\ Done /\ Endpoint = "/timeSeriesIndex2" /\ PassesPresenceChecks
    /\ ~Has("indexName") /\ ~Has("scale")
    /\ Len(calls) = 1
    /\ calls[1].args[1] = Str("NDVI") /\ calls[1].args[2] = Float(30)

\* C6: /timeSeriesIndex takes the collection from "collectionName" and the
\* dates from "dateFrom" and "dateTo": the payload {collectionName: C,
\* geometry: G, dateFrom: D1, dateTo: D2} leads to the engine call
\* getTimeSeriesByCollectionAndIndex with C, G, D1 and D2 and to a
\* {timeseries: ...} response.
C6_DocumentedFieldNamesAreRead ==
    (/\ Done /\ Endpoint = "/timeSeriesIndex" /\ IsDict
     /\ DOMAIN Payload = {"collectionName", "geometry", "dateFrom", "dateTo"}
     /\ Present("collectionName") /\ Present("geometry")
     /\ engine.kind = "returns") =>
        /\ Len(calls) = 1
        /\ calls[1].op = "getTimeSeriesByCollectionAndIndex"
        /\ calls[1].args[1] = Payload["collectionName"]
        /\ calls[1].args[4] = Payload["geometry"]
        /\ calls[1].args[5] = Payload["dateFrom"]
        /\ calls[1].args[6] = Payload["dateTo"]
        /\ "timeseries" \in DOMAIN values

\* C7: every response carries either a result (the engine's result, or the
\* empty result {} of a request that made no call) or an error, never both:
\* errMsg is in the body exactly when the engine raised GEEException, and then
\* it is the only field.
C7_ResultOrErrorNeverBoth ==
    (Done /\ status = 200) =>
        /\ "errMsg" \in DOMAIN values <=> EngineRaisedDomainException
        /\ "errMsg" \in DOMAIN values => DOMAIN values = {"errMsg"}
        /\ "errMsg" \notin DOMAIN values =>
              \/ calls = <<>> /\ values = EmptyDict
              \/ engine.kind = "returns" /\ values # EmptyDict

C7_Witness ==
    /\ Done /\ status = 200 /\ Endpoint = "/timeSeriesIndex"
    /\ EngineRaisedDomainException
    /\ DOMAIN values = {"errMsg"}

\* the success payload of each endpoint for the engine's return value
SuccessPayload ==
    CASE Endpoint \in {"/image", "/imageByMosaicCollection"} -> MapIdResult(engine.ret)
      [] Endpoint \in TimeSeriesEndpoints -> [timeseries |-> TimeSeriesResult(engine.ret)]
      [] Endpoint = "/getStats" -> StatisticsResult(engine.ret)

\* C8 as stated: every request that passes the presence checks of its endpoint
\* invokes exactly one engine operation, the one of the endpoint, and on
\* success the payload of the response is the engine's return value.
C8_ExactlyOneCallAsStated ==
    (Done /\ PassesPresenceChecks) =>
        /\ Len(calls) = 1
        /\ calls[1].op = OperationOf(Endpoint)
        /\ engine.kind = "returns" => (status = 200 /\ values = SuccessPayload)

\* C8 amended: every request that passes the presence checks of its endpoint
\* and, on the time-series endpoints, whose scale float() accepts invokes
\* exactly one engine operation, the one of the endpoint, and on success the
\* payload of the response is the engine's return value; when float() rejects
\* the scale no engine operation is invoked; no request invokes more than one.
C8_ExactlyOneCall ==
    /\ Done => Len(calls) <= 1
    /\ (Done /\ PassesPresenceChecks) =>
          IF Endpoint \in TimeSeriesEndpoints /\ ScaleRejected
          THEN calls = <<>>
          ELSE /\ Len(calls) = 1
               /\ calls[1].op = OperationOf(Endpoint)
               /\ engine.kind = "returns" => (status = 200 /\ values = SuccessPayload)

C8_Witness ==
    /\ Done /\ Endpoint = "/image" /\ PassesPresenceChecks
    /\ Payload["imageName"] = Str("X")
    /\ calls = <<Call("imageToMapId", <<Str("X"), Dict(1)>>)>>
    /\ values = [mapid |-> Str("m1"), token |-> Str("t1")]
    /\ status = 200

\* a failure that is not the engine's domain exception happens in the request
NonDomainFailure ==
    \/ Endpoint \in TimeSeriesEndpoints /\ PassesPresenceChecks /\ ScaleRejected
    \/ Endpoint = "/getStats" /\ ~IsDict
    \/ Endpoint # "/getStats" /\ ~IsDict /\ Truthy(request.json.v)
    \/ calls # <<>> /\ engine.kind = "Exception"

\* C9: only the domain exception is converted into a response: a failure that
\* is not GEEException (a scale float() rejects, a body that is no dict where
\* .get is called, another exception from the engine) leaves the handler
\* uncaught, with no errMsg body, no status 200 and nothing logged.
C9_OtherFailuresAreNotCaught ==
    Done =>
        /\ NonDomainFailure =>
              /\ raised # "none"
              /\ status # 200
              /\ "errMsg" \notin DOMAIN values
              /\ log = <<>>
        /\ raised # "none" <=> NonDomainFailure

C9_Witness ==
    /\ Done /\ Endpoint = "/timeSeriesIndex" /\ PassesPresenceChecks
    /\ Has("scale") /\ Payload["scale"] = Str("abc")
    /\ raised = "ValueError" /\ status = 0 /\ calls = <<>>

C9_WitnessEngine ==
    /\ Done /\ Endpoint = "/getStats" /\ calls # <<>> /\ engine.kind = "Exception"
    /\ raised = "Exception"

\* C10: on the two time-series endpoints, a payload carrying both "polygon"
\* and "geometry" forwards the polygon whenever it is non-empty and the
\* geometry only when the polygon is absent or empty; an empty value in both
\* counts as absent: {} is returned and no engine call is made.
C10_PolygonTakesPrecedence ==
    (Done /\ Endpoint \in TimeSeriesEndpoints /\ IsDict) =>
        /\ calls # <<>> =>
              GeometryArg = IF Present("polygon") THEN Payload["polygon"]
                            ELSE Payload["geometry"]
        /\ (~Present("polygon") /\ ~Present("geometry")) =>
              (values = EmptyDict /\ status = 200 /\ calls = <<>>)

C10_Witness ==
    /\ Done /\ Endpoint = "/timeSeriesIndex2"
    /\ Present("polygon") /\ Present("geometry")
    /\ Payload["polygon"] # Payload["geometry"]
    /\ Len(calls) = 1 /\ calls[1].args[3] = Payload["polygon"]

C10_WitnessEmpty ==
    /\ Done /\ Endpoint = "/timeSeriesIndex"
    /\ Has("polygon") /\ Has("geometry") /\ Present("collectionNameTimeSeries")
    /\ ~Present("polygon") /\ ~Present("geometry")
    /\ values = EmptyDict /\ status = 200 /\ calls = <<>>

====
